---- MODULE Spec2Model ----
(***************************************************************************)
(* canvas-calendar-export (src/main.py): the paginated collection pipeline *)
(* (paginate, fetch_courses, fetch_assignments, collect_assignments), the  *)
(* date normaliser (parse_due_at), the text formatter (format_output), the *)
(* calendar exporter (create_ics) and the control flow of main.            *)
(*                                                                         *)
(* Text (a Python str) is a sequence of symbols: a symbol is a character,   *)
(* or an atom that stands for a run of characters without blanks.  None is *)
(* the one-symbol sequence <<"None">>.  A timestamp is text whose instant  *)
(* symbol names a point of the representable datetime range                *)
(* 0..DatetimeMax (datetime.min .. datetime.max, scaled down to hours).    *)
(***************************************************************************)
EXTENDS Integers, Sequences, FiniteSets, TLC

VARIABLES
    top,        \* the function under study: "paginate", "collect", "main", ...
    server,     \* the upstream: [pages |-> most pages of a collection]
    tz,         \* UTC offset of the local timezone (hours)
    pc,         \* position of the program
    caller,     \* consumer of the running paginate generator
    err,        \* the exception that left the function under study, or "none"
    url,        \* paginate: local url
    params,     \* paginate: local params
    gets,       \* paginate: the GETs issued by the current call
    resps,      \* paginate: the responses received by the current call
    pages,      \* paginate: the pages yielded by the current call
    acc,        \* the consumer's list (courses / assignments), lines 57 and 72
    courses,    \* the list fetch_courses returned last
    selected_course_ids,
    course_map, \* collect_assignments: id -> course
    idx,        \* collect_assignments: position in selected_course_ids
    results,    \* collect_assignments: the list being built, then returned
    fetched,    \* history: per selected id handled, the course and raw records
    main_courses, \* main: the courses of line 200
    export_mode,  \* main: the answer of prompt_export_mode, "none" before
    arg,        \* argument of paginate / parse_due_at / format_output / create_ics
    out,        \* value returned by parse_due_at / format_output
    printed,    \* what was printed, in order
    exit_code,  \* status the process exits with, -1 while it runs
    events,     \* create_ics: cal.events
    file        \* the calendar file: [written |-> ..., events |-> ...]

envVars == <<top, server, tz>>
pagerVars == <<url, params, gets, resps, pages, acc>>
collectVars == <<courses, selected_course_ids, course_map, idx, results, fetched>>
toolVars == <<main_courses, export_mode, arg, out, printed, exit_code, events, file>>
vars == <<top, server, tz, pc, caller, err, url, params, gets, resps, pages, acc,
          courses, selected_course_ids, course_map, idx, results, fetched,
          main_courses, export_mode, arg, out, printed, exit_code, events, file>>

\* ------------------------------------------------------------------ bounds
MaxPages == 2        \* the upstream offers no `next` beyond this many pages
MaxSourcePages == 3  \* the same, for a source paginate is run against alone
MaxSelected == 2     \* length of the course selection handed to the collector
MaxItems == 3        \* length of the lists handed to format_output, create_ics
MainPages == 1       \* pages of a collection of the upstream main runs against
MaxPicked == 2       \* assignments the user ticks in prompt_assignment_selection
DatetimeMax == 6     \* instants 0..DatetimeMax: the datetime range, scaled

\* ------------------------------------------------------------------- text
None == <<"None">>
Truthy(v) == v # None /\ v # <<>>              \* Python: `if v` for Optional[str]
Or(a, b) == IF Truthy(a) THEN a ELSE b         \* Python: `a or b`
Whitespace == {" ", "\n"}
SeqsUpTo(S, n) == UNION {[1 .. k -> S] : k \in 0 .. n}

\* ------------------------------------------------------------- timestamps
Instants == 0 .. DatetimeMax
InstantSyms == {ToString(t) : t \in Instants}
InstantOf(sym) == CHOOSE t \in Instants : ToString(t) = sym
Offsets == {"-01:00", "Z", "+01:00"}
OffsetHours(z) == CASE z = "-01:00" -> -1 [] z = "Z" -> 0 [] z = "+01:00" -> 1
Zones == {-1, 0, 1}
TzName(off) == CASE off = -1 -> "AZOT" [] off = 0 -> "UTC" [] off = 1 -> "CET"
TzNames == {TzName(z) : z \in Zones}
Iso(t, z) == <<ToString(t), "T", z>>           \* "YYYY-MM-DDTHH:MM:SSZ"
Display(t, name) == <<ToString(t), " ", name>> \* "YYYY-MM-DD HH:MM TZ"
Loose(t) == <<"~", ToString(t)>>               \* a date in some other notation
Tbd == <<"T", "B", "D">>                       \* no date at all
Huge == <<"9", "9", "9">>                      \* digits beyond any date

\* ------------------------------------------------------------- upstream
NoUrl == [ep |-> "none", course |-> 0, page |-> 0]
CoursesUrl == [ep |-> "courses", course |-> 0, page |-> 1]
AssignmentsUrl(id) == [ep |-> "assignments", course |-> id, page |-> 1]

CourseParams ==
    {<<"enrollment_state", "active">>, <<"per_page", "100">>, <<"include[]", "term">>}
AssignmentParams ==
    {<<"per_page", "100">>, <<"include[]", "submission">>, <<"order_by", "due_at">>}
NoParams == {}

Course(id, name, code) == [id |-> id, name |-> name, course_code |-> code]
Math == Course(1, <<"M", "a">>, <<"M", "1">>)
Art == Course(2, None, <<" ", "A">>)           \* no name, a code
Bare == Course(3, <<>>, None)                  \* neither name nor code
NoId == Course(0, <<"X">>, None)               \* a record without a usable id
Math2 == Course(1, <<>>, <<"M", "2">>)         \* the id of Math once more
CourseIds == {1, 2, 3}

Raw(name, due, link) == [name |-> name, due_at |-> due, html_url |-> link]
Hw == Raw(<<"H", "W">>, Iso(3, "Z"), <<"u">>)
Quiz == Raw(<<"Q">>, Iso(0, "Z"), <<"v">>)     \* due at the first instant
Anon == Raw(None, None, None)
Blank == Raw(<<>>, <<>>, <<>>)
Vague == Raw(<<"V">>, Tbd, None)

\* The page bodies the upstream may serve at u: a few candidate first pages
\* per collection, one body for each later page.
Bodies(u) ==
    CASE u.ep = "courses" /\ u.page = 1 -> {<<>>, <<Math, Art>>, <<Bare, NoId>>}
      [] u.ep = "courses" /\ u.page > 1 -> {<<Art, Math2>>}
      [] u.ep = "assignments" /\ u.page = 1 /\ u.course = 1 -> {<<Hw>>, <<Quiz, Hw>>}
      [] u.ep = "assignments" /\ u.page = 1 /\ u.course = 2 -> {<<>>, <<Vague, Vague>>}
      [] u.ep = "assignments" /\ u.page = 1 /\ u.course = 3 -> {<<Anon>>, <<Blank, Hw>>}
      [] u.ep = "assignments" /\ u.page > 1 -> {<<Anon, Hw>>}
      [] OTHER -> {<<>>}

\* The `next` relations the upstream may attach to the response for u.
NextLinks(u) ==
    {NoUrl} \cup (IF u.page < server.pages THEN {[u EXCEPT !.page = @ + 1]} ELSE {})

Statuses == {200, 304, 404, 503}

\* What the upstream may answer to GET u: a page of JSON under 200, with or
\* without a `next` relation; an empty JSON list under a 3xx status; or, under
\* any status, a body that is no JSON.
Responses(u) ==
    {[status |-> 200, json_ok |-> TRUE, body |-> b, next |-> n] :
        b \in Bodies(u), n \in NextLinks(u)}
    \cup {[status |-> 304, json_ok |-> TRUE, body |-> <<>>, next |-> n] :
        n \in NextLinks(u)}
    \cup {[status |-> s, json_ok |-> FALSE, body |-> <<>>, next |-> NoUrl] :
        s \in Statuses}

\* ------------------------------------------------------------- paginate
\* A loop that tests nothing before its first request (do ... while).
UrlTruthyAlways(u) == TRUE

\* Line 35: `while url`
UrlTruthy(u) == u # NoUrl

\* Only server errors raise.
raise_for_server_errors(status) == 500 <= status /\ status < 600

\* Line 37, requests.Response.raise_for_status: HTTPError for 4xx and 5xx.
raise_for_status(status) == 400 <= status /\ status < 600

\* Line 38, response.json(): raises when the body is no JSON.
json_raises(r) == ~r.json_ok

\* Lines 39-40: response.links.get("next", {}).get("url")
next_url(r) == r.next

\* The params are not reset.
keep_params(p) == p

\* Line 41
next_params(p) == NoParams

\* How an exception leaves the function under study: main catches
\* requests.HTTPError (line 208) and raises a plain Exception (line 210).
Propagated(e) == IF top = "main" /\ e = "HTTPError" THEN "Exception" ELSE e

\* Lines 35-38: loop test, GET, raise_for_status, yield; the consumer extends
\* its list with the page (lines 57, 72).
PaginateGet ==
    /\ pc = "paginate"
    /\ UrlTruthy(url)
    /\ \E r \in Responses(url) :
        /\ gets' = Append(gets, [url |-> url, params |-> params])
        /\ resps' = Append(resps, r)
        /\ IF raise_for_status(r.status)
           THEN /\ pc' = "raised"
                /\ err' = Propagated("HTTPError")
                /\ UNCHANGED <<pages, acc>>
           ELSE IF json_raises(r)
           THEN /\ pc' = "raised"
                /\ err' = Propagated("JSONDecodeError")
                /\ UNCHANGED <<pages, acc>>
           ELSE /\ pc' = "yielded"
                /\ pages' = Append(pages, r.body)
                /\ acc' = acc \o r.body
                /\ UNCHANGED err
    /\ UNCHANGED <<caller, url, params>>
    /\ UNCHANGED <<envVars, collectVars, toolVars>>

\* Lines 39-41: the generator is resumed after the yield.
PaginateResume ==
    /\ pc = "yielded"
    /\ url' = next_url(resps[Len(resps)])
    /\ params' = next_params(params)
    /\ pc' = "paginate"
    /\ UNCHANGED <<caller, err, gets, resps, pages, acc>>
    /\ UNCHANGED <<envVars, collectVars, toolVars>>

\* Line 35 with a falsy url: the generator is exhausted.
PaginateReturn ==
    /\ pc = "paginate"
    /\ ~UrlTruthy(url)
    /\ caller = "paginate"
    /\ pc' = "drained"
    /\ UNCHANGED <<caller, err>>
    /\ UNCHANGED <<envVars, pagerVars, collectVars, toolVars>>

\* Start of a paginate call by a fetcher.
StartPager(u, p, who) ==
    /\ url' = u
    /\ params' = p
    /\ gets' = <<>>
    /\ resps' = <<>>
    /\ pages' = <<>>
    /\ acc' = <<>>
    /\ caller' = who
    /\ pc' = "paginate"

\* ------------------------------------------------------- parse_due_at
\* dateutil isoparse accepts exactly the ISO-8601 form; anything else is a
\* ValueError.  The datetime it returns: wall clock t at UTC offset off.
isoparse_ok(s) ==
    Len(s) = 3 /\ s[1] \in InstantSyms /\ s[2] = "T" /\ s[3] \in Offsets
isoparse(s) == [t |-> InstantOf(s[1]), off |-> OffsetHours(s[3])]

\* datetime.astimezone(): through UTC to the local zone; a result outside
\* datetime.min .. datetime.max is an OverflowError ("date value out of range").
astimezone_overflows(dt, zone) ==
    (dt.t - dt.off) \notin Instants \/ (dt.t - dt.off + zone) \notin Instants
astimezone(dt, zone) == [t |-> dt.t - dt.off + zone, off |-> zone]

\* strftime("%Y-%m-%d %H:%M %Z")
strftime(dt) == Display(dt.t, TzName(dt.off))

\* Line 81: the exception the expression raises, or "none".
due_at_exception(due_at, zone) ==
    IF ~isoparse_ok(due_at) THEN "ValueError"
    ELSE IF astimezone_overflows(isoparse(due_at), zone) THEN "OverflowError"
    ELSE "none"

\* Line 82: except (ValueError, TypeError)
except_due_at(exc) == exc \in {"ValueError", "TypeError"}

\* A timestamp that does not parse is dropped instead of passed through.
parse_due_at_dropping(due_at, zone) ==
    IF ~Truthy(due_at) \/ ~isoparse_ok(due_at) THEN [exc |-> "none", value |-> None]
    ELSE IF astimezone_overflows(isoparse(due_at), zone)
         THEN [exc |-> "OverflowError", value |-> None]
    ELSE [exc |-> "none", value |-> strftime(astimezone(isoparse(due_at), zone))]

\* Lines 77-83: the value returned, or the exception that escapes.
parse_due_at(due_at, zone) ==
    IF ~Truthy(due_at) THEN [exc |-> "none", value |-> None]
    ELSE LET e == due_at_exception(due_at, zone)
         IN  IF e = "none"
             THEN [exc |-> "none",
                   value |-> strftime(astimezone(isoparse(due_at), zone))]
             ELSE IF except_due_at(e) THEN [exc |-> "none", value |-> due_at]
             ELSE [exc |-> e, value |-> None]

\* -------------------------------------------------- collect_assignments
Untitled == <<"U", "n", "t", "i", "t", "l", "e", "d">>
CourseN(id) == <<"C", "o", "u", "r", "s", "e", " ", ToString(id)>>

\* Line 89: {c["id"]: c for c in courses if c.get("id")}; a later record of
\* the same id replaces an earlier one.
CourseMap(cs) ==
    [id \in {cs[i].id : i \in {j \in 1 .. Len(cs) : cs[j].id # 0}} |->
        cs[CHOOSE i \in 1 .. Len(cs) :
            cs[i].id = id /\ \A j \in 1 .. Len(cs) : cs[j].id = id => j <= i]]

\* Line 95
course_name_of(course, course_id) ==
    Or(course.name, Or(course.course_code, CourseN(course_id)))

\* No fallback for a missing name.
raw_name(item) == item.name

\* Line 100
assignment_name(item) == Or(item.name, Untitled)

\* Lines 98-103
ToAssignment(cname, item, zone) ==
    [course_name |-> cname,
     name |-> assignment_name(item),
     due_at |-> parse_due_at(item.due_at, zone).value,
     html_url |-> item.html_url]

\* Lines 96-104 for the records of one course, in their order.
MapItems(cname, items, zone) ==
    [k \in 1 .. Len(items) |-> ToAssignment(cname, items[k], zone)]

\* An exception raised while the records of one course are mapped.
MapRaises(items, zone) ==
    \E k \in 1 .. Len(items) : parse_due_at(items[k].due_at, zone).exc # "none"

\* The records upstream returned to one paginate call, in order.
RECURSIVE Flatten(_)
Flatten(ps) == IF ps = <<>> THEN <<>> ELSE Head(ps) \o Flatten(Tail(ps))
Returned(rs) == Flatten([k \in 1 .. Len(rs) |-> rs[k].body])

\* The new records are put in front.
prepend_results(rs, new) == new \o rs

\* Line 97: results.append, once per record.
extend_results(rs, new) == rs \o new

\* Line 87: fetch_courses(session, base_url), lines 45-56.
CollectStart ==
    /\ pc = "collect"
    /\ StartPager(CoursesUrl, CourseParams, "collect")
    /\ UNCHANGED err
    /\ UNCHANGED <<envVars, collectVars, toolVars>>

\* Line 58 returns the courses; lines 88-89.
CollectCourses ==
    /\ pc = "paginate"
    /\ ~UrlTruthy(url)
    /\ caller = "collect"
    /\ courses' = acc
    /\ results' = <<>>
    /\ course_map' = CourseMap(acc)
    /\ idx' = 1
    /\ pc' = "collect_loop"
    /\ UNCHANGED <<caller, err, selected_course_ids, fetched>>
    /\ UNCHANGED <<envVars, pagerVars, toolVars>>

\* Lines 91-94: an id that is not in the lookup is skipped.
CollectSkip ==
    /\ pc = "collect_loop"
    /\ idx <= Len(selected_course_ids)
    /\ selected_course_ids[idx] \notin DOMAIN course_map
    /\ idx' = idx + 1
    /\ fetched' = Append(fetched,
            [id |-> selected_course_ids[idx], found |-> FALSE,
             course |-> NoId, raw |-> <<>>])
    /\ UNCHANGED <<pc, caller, err, courses, selected_course_ids, course_map, results>>
    /\ UNCHANGED <<envVars, pagerVars, toolVars>>

\* Lines 92-96: fetch_assignments(session, base_url, course_id), lines 62-71.
CollectFetch ==
    /\ pc = "collect_loop"
    /\ idx <= Len(selected_course_ids)
    /\ selected_course_ids[idx] \in DOMAIN course_map
    /\ StartPager(AssignmentsUrl(selected_course_ids[idx]), AssignmentParams,
                  "assignments")
    /\ UNCHANGED err
    /\ UNCHANGED <<envVars, collectVars, toolVars>>

\* Line 73 returns the records; lines 95-104 map them onto results.
CollectAppend ==
    /\ pc = "paginate"
    /\ ~UrlTruthy(url)
    /\ caller = "assignments"
    /\ LET id == selected_course_ids[idx]
           cname == course_name_of(course_map[id], id)
       IN  IF MapRaises(acc, tz)
           THEN /\ pc' = "raised"
                /\ err' = Propagated("OverflowError")
                /\ UNCHANGED <<idx, results, fetched>>
           ELSE /\ results' = extend_results(results, MapItems(cname, acc, tz))
                /\ fetched' = Append(fetched,
                        [id |-> id, found |-> TRUE, course |-> course_map[id],
                         raw |-> Returned(resps)])
                /\ idx' = idx + 1
                /\ pc' = "collect_loop"
                /\ UNCHANGED err
    /\ UNCHANGED <<caller, courses, selected_course_ids, course_map>>
    /\ UNCHANGED <<envVars, pagerVars, toolVars>>

\* Line 105
CollectReturn ==
    /\ pc = "collect_loop"
    /\ idx > Len(selected_course_ids)
    /\ top = "collect"
    /\ pc' = "collected"
    /\ UNCHANGED <<caller, err>>
    /\ UNCHANGED <<envVars, pagerVars, collectVars, toolVars>>

\* -------------------------------------------------------- format_output
NoAssignments == <<"No assignments found.">>
NoDueDate == <<"No due date">>

\* Line 120: "-" * len(current_course)
Underline(name) == [k \in 1 .. Len(name) |-> "-"]

\* Lines 121-123: bullet, name, dash, due_display, url_display; "*" is the
\* bullet character and "--" the dash of the source.
Bullet(a) ==
    <<"*", " ">> \o a.name \o <<" ", "--", " ">> \o Or(a.due_at, NoDueDate)
    \o (IF Truthy(a.html_url) THEN <<" ", "(">> \o a.html_url \o <<")">> ELSE <<>>)

\* Lines 115-123: the lines appended for as[i] .. as[Len(as)], current_course
\* being the course of the assignment before.
RECURSIVE FormatLines(_, _, _)
FormatLines(as, i, current_course) ==
    IF i > Len(as) THEN <<>>
    ELSE LET a == as[i]
             header == IF a.course_name # current_course
                       THEN <<<<>>, a.course_name, Underline(a.course_name)>>
                       ELSE <<>>
         IN  header \o <<Bullet(a)>> \o FormatLines(as, i + 1, a.course_name)

\* "\n".join(lines)
RECURSIVE Join(_)
Join(lines) ==
    IF lines = <<>> THEN <<>>
    ELSE IF Len(lines) = 1 THEN lines[1]
    ELSE lines[1] \o <<"\n">> \o Join(Tail(lines))

\* str.lstrip(): every leading blank goes, not only the first line break.
RECURSIVE lstrip(_)
lstrip(text) ==
    IF text # <<>> /\ Head(text) \in Whitespace THEN lstrip(Tail(text)) ELSE text

\* Lines 109-124
format_output(as) ==
    IF as = <<>> THEN NoAssignments ELSE lstrip(Join(FormatLines(as, 1, None)))

FormatOutput ==
    /\ pc = "format_output"
    /\ out' = format_output(arg)
    /\ pc' = "formatted"
    /\ UNCHANGED <<caller, err, main_courses, export_mode, arg, printed, exit_code,
                   events, file>>
    /\ UNCHANGED <<envVars, pagerVars, collectVars>>

\* parse_due_at applied to arg, lines 77-83.
ParseDueAt ==
    /\ pc = "parse_due_at"
    /\ LET r == parse_due_at(arg, tz)
       IN  IF r.exc = "none"
           THEN pc' = "parsed" /\ out' = r.value /\ UNCHANGED err
           ELSE pc' = "raised" /\ err' = r.exc /\ UNCHANGED out
    /\ UNCHANGED <<caller, main_courses, export_mode, arg, printed, exit_code,
                   events, file>>
    /\ UNCHANGED <<envVars, pagerVars, collectVars>>

\* ----------------------------------------------------------- create_ics
\* dateutil.parser.parse (line 180) reads the ISO form, the display form and
\* other notations; the exception it raises otherwise, or "none".
IsDisplay(s) ==
    Len(s) = 3 /\ s[1] \in InstantSyms /\ s[2] = " " /\ s[3] \in TzNames
IsLoose(s) == Len(s) = 2 /\ s[1] = "~" /\ s[2] \in InstantSyms
parse_exception(s) ==
    IF isoparse_ok(s) \/ IsDisplay(s) \/ IsLoose(s) THEN "none"
    ELSE IF s = Huge THEN "OverflowError"
    ELSE "ParserError"
parse(s) == IF IsLoose(s) THEN InstantOf(s[2]) ELSE InstantOf(s[1])

\* Only a failed parse is caught.
except_value_error(exc) == exc \in {"ValueError", "ParserError"}

\* Line 181: except Exception
except_ics(exc) == TRUE

\* Lines 177-182: the assignment yields no event.
IcsSkips(a) ==
    \/ ~Truthy(a.due_at)
    \/ (parse_exception(a.due_at) # "none" /\ except_ics(parse_exception(a.due_at)))

\* An exception leaves the loop of lines 176-190.
IcsRaises(as) ==
    \E i \in 1 .. Len(as) :
        /\ Truthy(as[i].due_at)
        /\ parse_exception(as[i].due_at) # "none"
        /\ ~except_ics(parse_exception(as[i].due_at))

\* Lines 183-189; the i-th Event() gets a uid of its own.
IcsEvent(i, a) ==
    [uid |-> i,
     name |-> a.name,
     begin |-> parse(a.due_at),
     url |-> Or(a.html_url, <<>>),
     description |-> <<"Course: ">> \o a.course_name]

\* Lines 175-190: cal.events after the loop.
IcsEvents(as) == {IcsEvent(i, as[i]) : i \in {j \in 1 .. Len(as) : ~IcsSkips(as[j])}}

Created == <<"Created calendar file: assignments.ics">>

\* Lines 174-193, and the return of line 222 when main called.
CreateIcs ==
    /\ pc = "create_ics"
    /\ IF IcsRaises(arg)
       THEN /\ pc' = "raised"
            /\ err' = "ParserError"
            /\ UNCHANGED <<events, file, printed, exit_code>>
       ELSE /\ events' = IcsEvents(arg)
            /\ file' = [written |-> TRUE, events |-> IcsEvents(arg)]
            /\ printed' = Append(printed, Created)
            /\ pc' = IF top = "main" THEN "exit" ELSE "ics_done"
            /\ exit_code' = IF top = "main" THEN 0 ELSE exit_code
            /\ UNCHANGED err
    /\ UNCHANGED <<caller, main_courses, export_mode, arg, out>>
    /\ UNCHANGED <<envVars, pagerVars, collectVars>>

\* ----------------------------------------------------------------- main
NoCoursesFound == <<"No courses found.">>
NoAssignmentSelected == <<"No assignment selected. Exiting.">>

\* No test for an empty course list.
never_empty(cs) == FALSE

\* Line 201: `if not courses`
not_courses(cs) == cs = <<>>

\* Line 205: `if not selected_course_ids`
not_selected(ids) == ids = <<>>

\* Line 216: `if not chosen`
not_chosen(chosen) == chosen = <<>>

\* Line 200: fetch_courses(session, base_url)
MainStart ==
    /\ pc = "main"
    /\ StartPager(CoursesUrl, CourseParams, "main")
    /\ UNCHANGED err
    /\ UNCHANGED <<envVars, collectVars, toolVars>>

\* Lines 201-203: nothing fetched; print and return 1.
MainNoCourses ==
    /\ pc = "paginate"
    /\ ~UrlTruthy(url)
    /\ caller = "main"
    /\ not_courses(acc)
    /\ main_courses' = acc
    /\ printed' = Append(printed, NoCoursesFound)
    /\ exit_code' = 1
    /\ pc' = "exit"
    /\ UNCHANGED <<caller, err, export_mode, arg, out, events, file>>
    /\ UNCHANGED <<envVars, pagerVars, collectVars>>

\* Line 204 is reached.
MainCourses ==
    /\ pc = "paginate"
    /\ ~UrlTruthy(url)
    /\ caller = "main"
    /\ ~not_courses(acc)
    /\ main_courses' = acc
    /\ pc' = "prompt_courses"
    /\ UNCHANGED <<caller, err, export_mode, arg, out, printed, exit_code, events, file>>
    /\ UNCHANGED <<envVars, pagerVars, collectVars>>

\* Line 132: the values offered, c["id"] for c in courses if c.get("id").
Choices(cs) == {cs[i].id : i \in {j \in 1 .. Len(cs) : cs[j].id # 0}}

\* The lists without repetition over S: what a checkbox prompt may return.
Picks(S) == {q \in SeqsUpTo(S, Cardinality(S)) :
                \A i, j \in 1 .. Len(q) : i # j => q[i] # q[j]}

\* Lines 204-207, prompt_course_selection lines 127-136: an empty answer (or a
\* cancelled prompt) returns 0 without a word.
PromptCourseSelection ==
    /\ pc = "prompt_courses"
    /\ \E sel \in Picks(Choices(main_courses)) :
        /\ selected_course_ids' = sel
        /\ IF not_selected(sel)
           THEN pc' = "exit" /\ exit_code' = 0
           ELSE pc' = "collect" /\ UNCHANGED exit_code
    /\ UNCHANGED <<caller, err, courses, course_map, idx, results, fetched>>
    /\ UNCHANGED <<main_courses, export_mode, arg, out, printed, events, file>>
    /\ UNCHANGED <<envVars, pagerVars>>

\* Lines 207, 212-213 and prompt_export_mode, lines 139-151.
MainCollected ==
    /\ pc = "collect_loop"
    /\ idx > Len(selected_course_ids)
    /\ top = "main"
    /\ printed' = Append(printed, format_output(results))
    /\ \E mode \in {"all", "select"} :
        /\ export_mode' = mode
        /\ IF mode = "select"
           THEN pc' = "prompt_assignments" /\ UNCHANGED arg
           ELSE pc' = "create_ics" /\ arg' = results
    /\ UNCHANGED <<caller, err, main_courses, out, exit_code, events, file>>
    /\ UNCHANGED <<envVars, pagerVars, collectVars>>

\* The index sets the user may tick, in list order.
Ticks(n) == {T \in SUBSET (1 .. n) : Cardinality(T) <= MaxPicked}
RECURSIVE Pick(_, _, _)
Pick(as, T, i) ==
    IF i > Len(as) THEN <<>>
    ELSE (IF i \in T THEN <<as[i]>> ELSE <<>>) \o Pick(as, T, i + 1)

\* Lines 215-219, prompt_assignment_selection lines 154-172.
PromptAssignmentSelection ==
    /\ pc = "prompt_assignments"
    /\ \E T \in Ticks(Len(results)) :
        LET chosen == Pick(results, T, 1)
        IN  /\ arg' = chosen
            /\ IF not_chosen(chosen)
               THEN /\ printed' = Append(printed, NoAssignmentSelected)
                    /\ exit_code' = 0
                    /\ pc' = "exit"
               ELSE /\ pc' = "create_ics"
                    /\ UNCHANGED <<printed, exit_code>>
    /\ UNCHANGED <<caller, err, main_courses, export_mode, out, events, file>>
    /\ UNCHANGED <<envVars, pagerVars, collectVars>>

\* ------------------------------------------------------ specifications
IdlePager ==
    /\ caller = "none"
    /\ url = NoUrl
    /\ params = NoParams
    /\ gets = <<>>
    /\ resps = <<>>
    /\ pages = <<>>
    /\ acc = <<>>

IdleCollect ==
    /\ courses = <<>>
    /\ selected_course_ids = <<>>
    /\ course_map = <<>>
    /\ idx = 0
    /\ results = <<>>
    /\ fetched = <<>>

NoFile == [written |-> FALSE, events |-> {}]

IdleTools ==
    /\ main_courses = <<>>
    /\ export_mode = "none"
    /\ arg = <<>>
    /\ out = <<>>
    /\ printed = <<>>
    /\ exit_code = -1
    /\ events = {}
    /\ file = NoFile

\* paginate(session, url, params) called on its own and drained.
InitPager ==
    /\ top = "paginate"
    /\ server = [pages |-> MaxSourcePages]
    /\ tz = 0
    /\ pc = "paginate"
    /\ caller = "paginate"
    /\ err = "none"
    /\ url \in {NoUrl, CoursesUrl} \cup {AssignmentsUrl(id) : id \in CourseIds}
    /\ params \in {CourseParams, AssignmentParams, NoParams}
    /\ gets = <<>>
    /\ resps = <<>>
    /\ pages = <<>>
    /\ acc = <<>>
    /\ IdleCollect
    /\ main_courses = <<>>
    /\ export_mode = "none"
    /\ arg = [url |-> url, params |-> params]
    /\ out = <<>>
    /\ printed = <<>>
    /\ exit_code = -1
    /\ events = {}
    /\ file = NoFile

NextPager == PaginateGet \/ PaginateResume \/ PaginateReturn

SpecPager == InitPager /\ [][NextPager]_vars

\* The interpreter keeps running the one thread there is.
LivePager == SpecPager /\ WF_vars(NextPager)

\* collect_assignments(session, base_url, selected_course_ids) called on its own.
InitCollect ==
    /\ top = "collect"
    /\ server = [pages |-> MaxPages]
    /\ tz \in {-1, 0}
    /\ pc = "collect"
    /\ err = "none"
    /\ IdlePager
    /\ courses = <<>>
    /\ selected_course_ids \in SeqsUpTo(CourseIds, MaxSelected)
    /\ course_map = <<>>
    /\ idx = 0
    /\ results = <<>>
    /\ fetched = <<>>
    /\ IdleTools

NextCollect ==
    \/ CollectStart \/ PaginateGet \/ PaginateResume \/ CollectCourses
    \/ CollectSkip \/ CollectFetch \/ CollectAppend \/ CollectReturn

SpecCollect == InitCollect /\ [][NextCollect]_vars

\* parse_due_at(due_at) for a string or None, in any local timezone.
DueInputs ==
    {None, <<>>, Tbd, Huge}
    \cup {Iso(t, z) : t \in Instants, z \in Offsets}
    \cup {Display(t, n) : t \in Instants, n \in TzNames}
    \cup {Loose(t) : t \in Instants}

InitParse ==
    /\ top = "parse_due_at"
    /\ server = [pages |-> 0]
    /\ tz \in Zones
    /\ pc = "parse_due_at"
    /\ err = "none"
    /\ IdlePager
    /\ IdleCollect
    /\ main_courses = <<>>
    /\ export_mode = "none"
    /\ arg \in DueInputs
    /\ out = <<>>
    /\ printed = <<>>
    /\ exit_code = -1
    /\ events = {}
    /\ file = NoFile

NextParse == ParseDueAt

SpecParse == InitParse /\ [][NextParse]_vars

Assignment(cname, name, due, link) ==
    [course_name |-> cname, name |-> name, due_at |-> due, html_url |-> link]

\* format_output(assignments) for any list of Assignment records.
FormatInputs ==
    { Assignment(<<"M", "a">>, <<"H", "W">>, Display(3, "UTC"), <<"u">>),
      Assignment(<<"M", "a">>, <<"Q">>, None, None),
      Assignment(<<"A", "r", "t">>, Untitled, Tbd, None),
      Assignment(<<" ", "A">>, <<"P">>, None, <<"v">>) }

InitFormat ==
    /\ top = "format_output"
    /\ server = [pages |-> 0]
    /\ tz = 0
    /\ pc = "format_output"
    /\ err = "none"
    /\ IdlePager
    /\ IdleCollect
    /\ main_courses = <<>>
    /\ export_mode = "none"
    /\ arg \in SeqsUpTo(FormatInputs, MaxItems)
    /\ out = <<>>
    /\ printed = <<>>
    /\ exit_code = -1
    /\ events = {}
    /\ file = NoFile

NextFormat == FormatOutput

SpecFormat == InitFormat /\ [][NextFormat]_vars

\* create_ics(assignments) for any list of Assignment records.
IcsInputs ==
    { Assignment(<<"M", "a">>, <<"H", "W">>, Display(3, "CET"), <<"u">>),
      Assignment(<<"M", "a">>, <<"Q">>, None, None),
      Assignment(<<"A">>, Untitled, Tbd, None),
      Assignment(<<"A">>, <<"P">>, Loose(5), <<"v">>),
      Assignment(<<"A">>, <<"R">>, Huge, None),
      Assignment(CourseN(3), <<"S">>, <<>>, <<>>) }

InitIcs ==
    /\ top = "create_ics"
    /\ server = [pages |-> 0]
    /\ tz = 0
    /\ pc = "create_ics"
    /\ err = "none"
    /\ IdlePager
    /\ IdleCollect
    /\ main_courses = <<>>
    /\ export_mode = "none"
    /\ arg \in SeqsUpTo(IcsInputs, MaxItems)
    /\ out = <<>>
    /\ printed = <<>>
    /\ exit_code = -1
    /\ events = {}
    /\ file = NoFile

NextIcs == CreateIcs

SpecIcs == InitIcs /\ [][NextIcs]_vars

\* main(), against an upstream of MainPages pages per collection.
InitMain ==
    /\ top = "main"
    /\ server = [pages |-> MainPages]
    /\ tz \in {-1, 0}
    /\ pc = "main"
    /\ err = "none"
    /\ IdlePager
    /\ IdleCollect
    /\ IdleTools

NextMain ==
    \/ MainStart \/ PaginateGet \/ PaginateResume \/ MainNoCourses \/ MainCourses
    \/ PromptCourseSelection \/ CollectStart \/ CollectCourses \/ CollectSkip
    \/ CollectFetch \/ CollectAppend \/ MainCollected \/ PromptAssignmentSelection
    \/ CreateIcs

SpecMain == InitMain /\ [][NextMain]_vars

\* =================================================================== claims
ErrorStatus(s) == 400 <= s /\ s <= 599
Absent(v) == v = None \/ v = <<>>

\* The course and the raw record each Assignment of results was built from.
RECURSIVE Origins(_)
Origins(fs) ==
    IF fs = <<>> THEN <<>>
    ELSE [k \in 1 .. Len(Head(fs).raw) |->
            [id |-> Head(fs).id, course |-> Head(fs).course, raw |-> Head(fs).raw[k]]]
         \o Origins(Tail(fs))

\* ---- C1
PagerSafety ==
    /\ \A k \in 1 .. Len(resps) - 1 : resps[k].next # NoUrl
    /\ pc = "drained" =>
        /\ Len(gets) = Len(resps)
        /\ Len(pages) = Len(resps)
        /\ \A k \in 1 .. Len(resps) : pages[k] = resps[k].body
        /\ Len(resps) > 0 => resps[Len(resps)].next = NoUrl
        /\ arg.url = NoUrl <=> Len(resps) = 0

\* C1: paginate run against a source of N pages (N = 0 is the call with no
\* url), each page but the last carrying a `next` relation, yields exactly
\* those N pages in order, asks for nothing after the first response without
\* `next`, and terminates.
C1_PaginateYieldsAllPages ==
    []PagerSafety /\ <>(pc \in {"drained", "raised"})

C1_Witness == pc = "drained" /\ err = "none" /\ Len(pages) = 3 /\ pages[1] # pages[2]

\* ---- C2
AbortsOn(bad(_), errors) ==
    /\ \A k \in 1 .. Len(resps) :
        bad(resps[k].status) =>
            /\ k = Len(resps)
            /\ Len(gets) = k
            /\ Len(pages) = k - 1
            /\ pc = "raised"
            /\ err \in errors
    /\ err # "none" => pc = "raised"
    /\ pc = "raised" => ~ENABLED NextCollect

NotSuccess(s) == s < 200 \/ s > 299

RECURSIVE ExpectedResults(_)
ExpectedResults(fs) ==
    IF fs = <<>> THEN <<>>
    ELSE (IF Head(fs).found
          THEN [k \in 1 .. Len(Head(fs).raw) |->
                    ToAssignment(course_name_of(Head(fs).course, Head(fs).id),
                                 Head(fs).raw[k], tz)]
          ELSE <<>>)
         \o ExpectedResults(Tail(fs))

\* C3: the list collect_assignments returns is the concatenation, over the
\* selected ids in the caller's order, of one Assignment per record upstream
\* returned for that course, in upstream's order; an id that is not in the
\* lookup adds nothing, and nothing is reordered or deduplicated.
C3_SelectionOrderKept ==
    pc = "collected" =>
        /\ Len(fetched) = Len(selected_course_ids)
        /\ \A i \in 1 .. Len(fetched) :
            /\ fetched[i].id = selected_course_ids[i]
            /\ fetched[i].found <=>
                    \E j \in 1 .. Len(courses) : courses[j].id = fetched[i].id
            /\ ~fetched[i].found => fetched[i].raw = <<>>
        /\ results = ExpectedResults(fetched)
        /\ Len(results) = Len(Origins(fetched))

C3_Witness ==
    /\ pc = "collected"
    /\ selected_course_ids = <<2, 1>>
    /\ Len(courses) = 2
    /\ courses[1].id = 1
    /\ Len(results) = 3
    /\ results[1] = results[2]
    /\ results[3].course_name = <<"M", "a">>

\* ---- C4
\* C4: every Assignment returned has a non-empty name and course_name: the
\* record's name, or "Untitled" when that is missing or empty; the course's
\* name, else its course_code, else "Course {id}".
C4_NamesNeverEmpty ==
    pc = "collected" =>
        /\ Len(results) = Len(Origins(fetched))
        /\ \A k \in 1 .. Len(results) :
            LET o == Origins(fetched)[k]
            IN  /\ ~Absent(results[k].name)
                /\ ~Absent(results[k].course_name)
                /\ results[k].name =
                        (IF Absent(o.raw.name) THEN Untitled ELSE o.raw.name)
                /\ results[k].course_name =
                        (IF ~Absent(o.course.name) THEN o.course.name
                         ELSE IF ~Absent(o.course.course_code) THEN o.course.course_code
                         ELSE <<"C", "o", "u", "r", "s", "e", " ">> \o <<ToString(o.id)>>)

C4_Witness ==
    /\ pc = "collected"
    /\ \E k \in 1 .. Len(results) :
        results[k].name = Untitled /\ results[k].course_name = CourseN(3)
    /\ \E k \in 1 .. Len(results) : results[k].course_name = <<" ", "A">>

\* ---- C5
\* C5 as amended: in a list collect_assignments returns, due_at is absent when
\* upstream's due_at was missing, null or empty; display text when it was an
\* ISO-8601 timestamp; and upstream's string unchanged when it was anything
\* else.
C5_DueAtAbsentDisplayOrRaw ==
    pc = "collected" =>
        /\ Len(results) = Len(Origins(fetched))
        /\ \A k \in 1 .. Len(results) :
            LET d == results[k].due_at
                r == Origins(fetched)[k].raw.due_at
            IN  IF Absent(r) THEN d = None
                ELSE IF isoparse_ok(r) THEN IsDisplay(d)
                ELSE d = r

C5_Witness ==
    /\ pc = "collected"
    /\ \E k \in 1 .. Len(results) : results[k].due_at = Tbd
    /\ \E k \in 1 .. Len(results) : IsDisplay(results[k].due_at)

\* C5 as stated: due_at is absent or display text, whatever upstream sent.
C5_Original ==
    pc = "collected" =>
        \A k \in 1 .. Len(results) :
            results[k].due_at = None \/ IsDisplay(results[k].due_at)

\* ---- C6
\* C6: parse_due_at raises nothing for a string or None; it returns absent
\* exactly for None and the empty string, and otherwise the display text or
\* its input unchanged.
C6_ParseDueAtTotal ==
    /\ pc # "raised"
    /\ pc = "parsed" =>
        /\ out = None <=> Absent(arg)
        /\ out # None => IsDisplay(out) \/ out = arg

\* ---- C7
Usable(a) == ~Absent(a.due_at) /\ parse_exception(a.due_at) = "none"

\* C7: create_ics never fails over a due_at and writes the file; the events
\* written are, one to one, the assignments whose due_at is present and
\* parses, the others being left out.
C7_ExportSkipsUnusable ==
    /\ pc # "raised"
    /\ pc = "ics_done" =>
        /\ file.written
        /\ printed = <<Created>>
        /\ {e.uid : e \in file.events} = {i \in 1 .. Len(arg) : Usable(arg[i])}
        /\ Cardinality(file.events) = Cardinality({i \in 1 .. Len(arg) : Usable(arg[i])})
        /\ \A e \in file.events :
            /\ e.name = arg[e.uid].name
            /\ e.description = <<"Course: ">> \o arg[e.uid].course_name

C7_Witness ==
    /\ pc = "ics_done"
    /\ Len(arg) = 3
    /\ arg[1].due_at = Tbd
    /\ arg[2].due_at = None
    /\ arg[3].due_at = Display(3, "CET")
    /\ Cardinality(file.events) = 1

\* ---- C8
\* The lines of the claim: per maximal run of one course_name, the name, an
\* underline of its length and the bullets of the run; a blank line between
\* runs.
ExpectedLines(as) ==
    Flatten([i \in 1 .. Len(as) |->
        (IF i > 1 /\ as[i].course_name # as[i - 1].course_name THEN <<<<>>>> ELSE <<>>)
        \o (IF i = 1 \/ as[i].course_name # as[IF i = 1 THEN 1 ELSE i - 1].course_name
            THEN <<as[i].course_name, Underline(as[i].course_name)>>
            ELSE <<>>)
        \o <<Bullet(as[i])>>])

\* C8: format_output emits one header (course name, underline of equal
\* length) per maximal run of one course_name, each followed by the bullets of
\* its run in input order, and "No assignments found." for the empty list.
C8_HeaderPerRun ==
    pc = "formatted" =>
        out = (IF arg = <<>> THEN NoAssignments ELSE Join(ExpectedLines(arg)))

\* ---- C9
EndsNoCourses == pc = "exit" /\ main_courses = <<>>
EndsNoSelection == pc = "exit" /\ main_courses # <<>> /\ selected_course_ids = <<>>
EndsNoChosen == pc = "exit" /\ export_mode = "select" /\ arg = <<>>

C10_ParamsOnFirstGetOnly ==
    /\ Len(resps) = Len(gets)
    /\ Len(gets) <= Len(pages) + 1
    /\ \A k \in 1 .. Len(gets) :
        IF k = 1
        THEN gets[1] = [url |-> arg.url, params |-> arg.params]
        ELSE /\ resps[k - 1].next # NoUrl
             /\ gets[k] = [url |-> resps[k - 1].next, params |-> NoParams]
             /\ Len(pages) >= k - 1

C10_Witness ==
    /\ Len(gets) = 3
    /\ arg.params = AssignmentParams
    /\ gets[3].url = [ep |-> "assignments", course |-> 2, page |-> 3]

====
